---- MODULE Spec2Model ----
(***************************************************************************)
(* Model of pyessential/logger.py: the Logger class, a router over three   *)
(* named sinks (<log_name>.stdin, <log_name>.stdout, <log_name>.error)     *)
(* kept in the process-wide registry of the logging library, each with a   *)
(* lazily opened file handler and an optional console handler.             *)
(***************************************************************************)
EXTENDS Integers, Sequences, FiniteSets, TLC

\* ---------------------------------------------------------------- bounds
MaxConstructions == 2   \* Logger(...) calls in one run
MaxCalls == 2           \* logging calls (leveled calls and log_error) in one run
MaxDepth == 2           \* entries of a traceback: 1 is a raise in the try block itself

\* The inputs a router is built from and called with.
Dirs == {"logs"}
LogNames == {"app"}
Msgs == {"m1"}
ExcClasses == {"KeyError", "ValueError"}
ExcArgs == {"boom"}
Timestamps == {"2026-01-01 00:00:00"}

\* ------------------------------------------------------- logging levels
DEBUG == 10
INFO == 20
WARNING == 30
ERROR == 40
CRITICAL == 50

\* logging.getLevelName for the five levels the router uses.
getLevelName(levelno) ==
    CASE levelno = DEBUG -> "DEBUG"
      [] levelno = INFO -> "INFO"
      [] levelno = WARNING -> "WARNING"
      [] levelno = ERROR -> "ERROR"
      [] levelno = CRITICAL -> "CRITICAL"

\* A level name is a string, modelled as its sequence of characters.
UpperChars == <<"A","B","C","D","E","F","G","H","I","J","K","L","M",
                "N","O","P","Q","R","S","T","U","V","W","X","Y","Z">>
LowerChars == <<"a","b","c","d","e","f","g","h","i","j","k","l","m",
                "n","o","p","q","r","s","t","u","v","w","x","y","z">>

\* The level argument looked up as given, without lower().
lower_identity(s) == s

\* str.lower(), character by character.
lower(s) ==
    [i \in 1..Len(s) |->
        IF \E k \in 1..Len(UpperChars) : UpperChars[k] = s[i]
        THEN LowerChars[CHOOSE k \in 1..Len(UpperChars) : UpperChars[k] = s[i]]
        ELSE s[i]]

\* Logger._LEVEL_MAP, as the set of its (key, value) items.
_LEVEL_MAP ==
    { << <<"d","e","b","u","g">>, DEBUG >>,
      << <<"i","n","f","o">>, INFO >>,
      << <<"w","a","r","n","i","n","g">>, WARNING >>,
      << <<"e","r","r","o","r">>, ERROR >>,
      << <<"c","r","i","t","i","c","a","l">>, CRITICAL >> }

\* dict.get(key, default)
DictGet(d, key, default) ==
    IF \E e \in d : e[1] = key
    THEN (CHOOSE e \in d : e[1] = key)[2]
    ELSE default

\* The level arguments a router is constructed with.
LevelArgs ==
    { <<"d","e","b","u","g">>, <<"I","N","F","O">>, <<"W","a","r","n","i","n","g">>,
      <<"E","R","R","O","R">>, <<"c","r","i","t","i","c","a","l">>,
      <<"t","r","a","c","e">> }

\* ---------------------------------------------------------------- sinks
SinkNames == <<"stdin", "stdout", "error">>
Sinks == {"stdin", "stdout", "error"}

\* os.path.join(log_dir, f"{log_name}_<sink>.log")
PathOf(log_dir, log_name, sink) ==
    << log_dir, log_name,
       CASE sink = "stdin" -> "_stdin.log"
         [] sink = "stdout" -> "_stdout.log"
         [] sink = "error" -> "_error.log" >>

Paths == { PathOf(d, n, s) : d \in Dirs, n \in LogNames, s \in Sinks }

\* f"{log_name}.<sink>": the key of a sink in the registry of named loggers.
LoggerName(log_name, sink) == <<log_name, sink>>
LoggerNames == LogNames \X Sinks

SysStdout == <<"sys.stdout">>
SysStderr == <<"sys.stderr">>

VARIABLES
    routers,      \* the Logger objects constructed so far, in construction order
    loggers,      \* logging's registry: logger name -> level, handlers, propagate
    fs,           \* the file system: path -> whether the file exists, its lines
    dirs,         \* the directories that exist
    console,      \* what was written to sys.stdout and sys.stderr
    orphans,      \* open file objects whose handler is attached to no logger any more
    last,         \* the last operation, its arguments and what it returned
    nCalls        \* logging calls so far

vars == <<routers, loggers, fs, dirs, console, orphans, last, nCalls>>

\* ------------------------------------------------------------- handlers
\* The file handler with delay=False: the file is opened when the handler is built.
TimedRotatingFileHandler_eager(filepath, owner) ==
    [kind |-> "file", target |-> filepath, fd |-> TRUE, level |-> 0, owner |-> owner]

\* TimedRotatingFileHandler(filename=filepath, ..., delay=True): no file object yet,
\* level NOTSET.  owner: the router whose construction built the handler.
TimedRotatingFileHandler(filepath, owner) ==
    [kind |-> "file", target |-> filepath, fd |-> FALSE, level |-> 0, owner |-> owner]

\* logging.StreamHandler(stream) followed by sh.setLevel(log_level)
StreamHandler(stream, log_level, owner) ==
    [kind |-> "stream", target |-> stream, fd |-> FALSE, level |-> log_level, owner |-> owner]

\* _build_logger without logger.handlers.clear().
clear_nothing(handlers) == handlers

\* logger.handlers.clear()
clear(handlers) == <<>>

\* The two console streams taken for each other.
ConsoleStream_swapped(console_to_stderr) == IF console_to_stderr THEN SysStdout ELSE SysStderr

\* stream = sys.stderr if console_to_stderr else sys.stdout
ConsoleStream(console_to_stderr) == IF console_to_stderr THEN SysStderr ELSE SysStdout

\* Logger._build_logger: look the named logger up in the registry, set its level,
\* drop the handlers it has, attach a file handler and, if asked, a console handler.
_build_logger(reg, name, filepath, level, owner, enable_console, console_to_stderr) ==
    LET log_level == DictGet(_LEVEL_MAP, lower(level), DEBUG)
        fh == TimedRotatingFileHandler(filepath, owner)
        stream == ConsoleStream(console_to_stderr)
        sh == StreamHandler(stream, log_level, owner)
        kept == clear(reg[name].handlers)
    IN  [reg EXCEPT ![name] =
            [level |-> log_level,
             handlers |-> kept \o <<fh>> \o (IF enable_console THEN <<sh>> ELSE <<>>),
             propagate |-> FALSE]]

\* Every handler attached to some logger of the registry.
AllHandlers(reg) ==
    UNION { { reg[n].handlers[i] : i \in 1..Len(reg[n].handlers) } : n \in LoggerNames }

\* The file objects that were open in `before` and whose handler is in no logger of
\* `after`: nothing refers to the handler any more and nothing has closed its file.
Dropped(before, after) ==
    { [path |-> h.target, owner |-> h.owner] :
        h \in { g \in AllHandlers(before) : g.fd /\ g \notin AllHandlers(after) } }

\* A file handler that holds an open file object has opened its path in append
\* mode, which creates the file if it is not there.
Touch(files, reg) ==
    [p \in Paths |->
        IF \E h \in AllHandlers(reg) : h.kind = "file" /\ h.fd /\ h.target = p
        THEN [files[p] EXCEPT !.exists = TRUE]
        ELSE files[p]]

\* Logger.__init__: the paths, os.makedirs, and the three sinks, built in the order
\* stdin, stdout, error.  The ingress sink never gets a console handler.
__init__(reg, owner, log_dir, log_name, level, enable_console) ==
    LET r1 == _build_logger(reg, LoggerName(log_name, "stdin"),
                            PathOf(log_dir, log_name, "stdin"), level, owner, FALSE, FALSE)
        r2 == _build_logger(r1, LoggerName(log_name, "stdout"),
                            PathOf(log_dir, log_name, "stdout"), level, owner,
                            enable_console, FALSE)
        r3 == _build_logger(r2, LoggerName(log_name, "error"),
                            PathOf(log_dir, log_name, "error"), level, owner,
                            enable_console, TRUE)
    IN  r3

\* A Logger object: log_dir and log_name are its fields (the three paths and the three
\* loggers follow from them); level and enable_console record what it was constructed
\* with, closed whether close() has been called on it, scope whether the program is
\* inside "with router:".
Router(log_dir, log_name, level, enable_console) ==
    [log_dir |-> log_dir, log_name |-> log_name, level |-> level,
     enable_console |-> enable_console, closed |-> FALSE, scope |-> FALSE]

\* ------------------------------------------------- exceptions and frames
\* An exception object: its class and its single argument.
Exceptions == [cls : ExcClasses, arg : ExcArgs]

\* repr() of a string, given and returned as a sequence of tokens: in double quotes
\* if it holds a single quote and no double quote, otherwise in single quotes with
\* the single quotes and the newlines in it escaped.
Escape(text) ==
    [i \in 1..Len(text) |->
        IF text[i] = "'" THEN "\\'" ELSE IF text[i] = "\n" THEN "\\n" ELSE text[i]]
Repr(text) ==
    LET has(q) == \E i \in 1..Len(text) : text[i] = q
    IN  IF has("'") /\ ~has("\"")
        THEN <<"\"">> \o [i \in 1..Len(text) |-> IF text[i] = "\n" THEN "\\n" ELSE text[i]]
             \o <<"\"">>
        ELSE <<"'">> \o Escape(text) \o <<"'">>

\* str(e): KeyError shows the repr of its argument, other classes the argument.
StrExc(e) == IF e.cls = "KeyError" THEN Repr(<<e.arg>>) ELSE <<e.arg>>

\* The i-th frame of the call chain that leads from the function holding the try
\* block (i = 1) to the function that raises (the last one).
Frame(i) ==
    [file |-> <<"src", IF i = 1 THEN "main.py" ELSE "lib.py">>,
     line |-> 10 * i,
     func |-> IF i = 1 THEN "main" ELSE IF i = 2 THEN "helper" ELSE "inner"]

\* sys.exc_info(): the exception being handled and its traceback, one entry per
\* frame from the handling frame down to the raise site; or nothing.
NoCtx == [active |-> FALSE, exc |-> [cls |-> "NoneType", arg |-> "None"], tb |-> <<>>]
Ctx(e, depth) == [active |-> TRUE, exc |-> e, tb |-> [i \in 1..depth |-> Frame(i)]]
Contexts == {NoCtx} \cup { Ctx(e, d) : e \in Exceptions, d \in 1..MaxDepth }

\* One "File ..., line ..., in ..." line per traceback entry.
RECURSIVE FormatTb(_)
FormatTb(tb) ==
    IF tb = <<>> THEN <<>>
    ELSE <<"File", "\"">> \o Head(tb).file \o <<"\"", "line", ToString(Head(tb).line),
                                                "in", Head(tb).func, "\n">>
         \o FormatTb(Tail(tb))

\* traceback.format_exc()
format_exc(ctx) ==
    IF ~ctx.active THEN <<"NoneType: None", "\n">>
    ELSE <<"Traceback (most recent call last):", "\n">> \o FormatTb(ctx.tb)
         \o <<ctx.exc.cls, ":">> \o StrExc(ctx.exc) \o <<"\n">>

\* logging.Formatter.formatException: the same text without its last newline.
formatException(ctx) == SubSeq(format_exc(ctx), 1, Len(format_exc(ctx)) - 1)

\* os.path.split(path)[1]
Basename(path) == path[Len(path)]

\* ------------------------------------------------- the logging machinery
\* Logger.getEffectiveLevel: the logger's own level, or the root's WARNING if unset.
getEffectiveLevel(lg) == IF lg.level # 0 THEN lg.level ELSE WARNING

\* Logger.isEnabledFor
isEnabledFor(lg, levelno) == levelno >= getEffectiveLevel(lg)

\* The line a handler writes for a record: the level name, the message and the
\* traceback text of the formatter's template (fmt "formatter"), or the bare message
\* of logging.lastResort (fmt "lastResort").
Line(rec, fmt) ==
    [serial |-> rec.serial, via |-> rec.via, fmt |-> fmt,
     levelname |-> IF fmt = "formatter" THEN getLevelName(rec.levelno) ELSE "",
     msg |-> rec.msg, exc |-> rec.exc]

\* Handler.handle / emit of the i-th handler and of those after it.  A file handler
\* opens its file on its first record (delay=True), which creates the file, then appends.
RECURSIVE EmitFrom(_, _, _)
EmitFrom(st, rec, i) ==
    IF i > Len(st.lg.handlers) THEN st
    ELSE LET h == st.lg.handlers[i] IN
         IF rec.levelno < h.level THEN EmitFrom(st, rec, i + 1)
         ELSE IF h.kind = "file"
         THEN EmitFrom([st EXCEPT !.lg.handlers[i].fd = TRUE,
                                  !.fs[h.target] =
                                      [exists |-> TRUE,
                                       lines |-> Append(@.lines, Line(rec, "formatter"))]],
                       rec, i + 1)
         ELSE EmitFrom([st EXCEPT !.console[h.target] = Append(@, Line(rec, "formatter"))],
                       rec, i + 1)

\* Logger.callHandlers: every handler of the logger (propagate is False and the root
\* logger has no handlers, so there are no others); with none at all, the record
\* goes to logging.lastResort, which writes WARNING and above to sys.stderr.
callHandlers(st, rec) ==
    IF Len(st.lg.handlers) = 0
    THEN IF rec.levelno >= WARNING
         THEN [st EXCEPT !.console[SysStderr] = Append(@, Line(rec, "lastResort"))]
         ELSE st
    ELSE EmitFrom(st, rec, 1)

\* str(msg) of LogRecord.getMessage, and the record a call makes.  A message is a
\* sequence of tokens.
makeRecord(serial, via, levelno, msg, exc_info, ctx) ==
    [serial |-> serial, via |-> via, levelno |-> levelno, msg |-> msg,
     exc |-> IF exc_info THEN formatException(ctx) ELSE <<>>]

\* logging.Logger.debug/info/warning/error/critical on the logger `name`.
Log(reg, files, cons, name, rec) ==
    LET st0 == [lg |-> reg[name], fs |-> files, console |-> cons]
        st1 == IF isEnabledFor(reg[name], rec.levelno) THEN callHandlers(st0, rec) ELSE st0
    IN  [loggers |-> [reg EXCEPT ![name] = st1.lg], fs |-> st1.fs, console |-> st1.console]

\* -------------------------------------------------- the router's methods
\* Each leveled method: the sink it writes to, the level it writes at, and whether
\* it forces exc_info=True.
debug == [via |-> "debug", sink |-> "stdout", levelno |-> DEBUG, force_exc |-> FALSE]
info == [via |-> "info", sink |-> "stdout", levelno |-> INFO, force_exc |-> FALSE]
warning_to_fault == [via |-> "warning", sink |-> "error", levelno |-> WARNING, force_exc |-> FALSE]
warning == [via |-> "warning", sink |-> "stdout", levelno |-> WARNING, force_exc |-> FALSE]
error == [via |-> "error", sink |-> "error", levelno |-> ERROR, force_exc |-> FALSE]
critical == [via |-> "critical", sink |-> "error", levelno |-> CRITICAL, force_exc |-> FALSE]
exception == [via |-> "exception", sink |-> "error", levelno |-> ERROR, force_exc |-> TRUE]
stdin == [via |-> "stdin", sink |-> "stdin", levelno |-> INFO, force_exc |-> FALSE]

Methods == {debug, info, warning, error, critical, exception, stdin}

\* router.<method>(msg, exc_info=exc_info) while `ctx` is the exception context.
Leveled(reg, files, cons, router, method, serial, via, msg, exc_info, ctx) ==
    Log(reg, files, cons, LoggerName(router.log_name, method.sink),
        makeRecord(serial, via, method.levelno, msg, exc_info \/ method.force_exc, ctx))

\* str(data) of the report: the items in insertion order, keys and string values in
\* quotes, the line number as a number.
StrDict(data) ==
    <<"{">> \o Repr(<<"exception_type">>) \o <<":">> \o Repr(<<data.exception_type>>)
    \o <<",">> \o Repr(<<"exception_message">>) \o <<":">> \o Repr(data.exception_message)
    \o <<",">> \o Repr(<<"filename">>) \o <<":">> \o Repr(<<data.filename>>)
    \o <<",">> \o Repr(<<"lineno">>) \o <<":">> \o <<ToString(data.lineno)>>
    \o <<",">> \o Repr(<<"function">>) \o <<":">> \o Repr(<<data.function>>)
    \o <<",">> \o Repr(<<"timestamp">>) \o <<":">> \o Repr(<<data.timestamp>>)
    \o <<",">> \o Repr(<<"traceback">>) \o <<":">> \o Repr(data.traceback)
    \o <<"}">>

\* The report with the class of the exception being handled instead of err's class.
Report_handled_type(err, ctx, ts) ==
    [exception_type |-> ctx.exc.cls,
     exception_message |-> StrExc(err),
     filename |-> IF ctx.active THEN Basename(ctx.tb[1].file) ELSE "<unknown>",
     lineno |-> IF ctx.active THEN ctx.tb[1].line ELSE -1,
     function |-> IF ctx.active THEN ctx.tb[1].func ELSE "<unknown>",
     timestamp |-> ts,
     traceback |-> format_exc(ctx)]

\* The report of Logger.log_error: the location is read off the traceback object
\* sys.exc_info() returns, which is the traceback's first entry.
Report(err, ctx, ts) ==
    [exception_type |-> err.cls,
     exception_message |-> StrExc(err),
     filename |-> IF ctx.active THEN Basename(ctx.tb[1].file) ELSE "<unknown>",
     lineno |-> IF ctx.active THEN ctx.tb[1].line ELSE -1,
     function |-> IF ctx.active THEN ctx.tb[1].func ELSE "<unknown>",
     timestamp |-> ts,
     traceback |-> format_exc(ctx)]

\* Logger.log_error: build the report, self.error(data, exc_info=True), return it.
log_error(reg, files, cons, router, serial, err, ctx, ts) ==
    LET data == Report(err, ctx, ts)
    IN  [st |-> Leveled(reg, files, cons, router, error, serial, "log_error",
                        StrDict(data), TRUE, ctx),
         ret |-> data]

\* ---------------------------------------------------------------- close
HandlerKeys == Sinks \X {"file", "stream"}
\* Which handlers' flush() or close() raise: none, one, or all of them.
FailSets == {{}} \cup { {k} : k \in HandlerKeys } \cup {HandlerKeys}

\* list(lg.handlers) of the three loggers, in the order close() visits them.
RECURSIVE Snapshot(_, _, _)
Snapshot(reg, router, s) ==
    IF s > Len(SinkNames) THEN <<>>
    ELSE LET name == LoggerName(router.log_name, SinkNames[s])
         IN  [i \in 1..Len(reg[name].handlers) |->
                 [name |-> name, sink |-> SinkNames[s], h |-> reg[name].handlers[i]]]
             \o Snapshot(reg, router, s + 1)

\* Logger.removeHandler: drop the first occurrence of h.
RECURSIVE Remove(_, _)
Remove(handlers, h) ==
    IF handlers = <<>> THEN <<>>
    ELSE IF Head(handlers) = h THEN Tail(handlers)
    ELSE <<Head(handlers)>> \o Remove(Tail(handlers), h)

\* The body of close()'s loops from the k-th handler on.  ff, cf: the handlers whose
\* flush(), close() raise; leak: whether a close() that raises leaves the file open;
\* catch: whether "except Exception: pass" surrounds the two calls.  The result counts
\* the flush and close attempts made and the exceptions caught.
RECURSIVE CloseFrom(_, _, _, _, _, _, _)
CloseFrom(acc, items, k, ff, cf, leak, catch) ==
    IF k > Len(items) \/ acc.raised THEN acc
    ELSE LET it == items[k]
             key == <<it.sink, it.h.kind>>
             flushed == [acc EXCEPT !.flushed = @ + 1,
                                    !.caught = IF key \in ff /\ catch THEN @ + 1 ELSE @]
         IN  IF key \in ff /\ ~catch THEN [flushed EXCEPT !.raised = TRUE]
             ELSE LET stillOpen == it.h.fd /\ key \in cf /\ leak
                      closed == [flushed EXCEPT
                                    !.closed = @ + 1,
                                    !.caught = IF key \in cf /\ catch THEN @ + 1 ELSE @]
                  IN  IF key \in cf /\ ~catch
                      THEN [closed EXCEPT
                               !.raised = TRUE,
                               !.reg[it.name].handlers =
                                   [i \in 1..Len(@) |->
                                       IF @[i] = it.h THEN [it.h EXCEPT !.fd = stillOpen]
                                       ELSE @[i]]]
                      ELSE CloseFrom(
                               [closed EXCEPT
                                   !.reg[it.name].handlers = Remove(@, it.h),
                                   !.orphaned = IF stillOpen
                                                THEN @ \cup {[path |-> it.h.target,
                                                              owner |-> it.h.owner]}
                                                ELSE @],
                               items, k + 1, ff, cf, leak, catch)

CloseAll(reg, router, ff, cf, leak, catch) ==
    LET items == Snapshot(reg, router, 1)
    IN  CloseFrom([reg |-> reg, orphaned |-> {}, raised |-> FALSE, flushed |-> 0,
                   closed |-> 0, caught |-> 0, before |-> Len(items)],
                  items, 1, ff, cf, leak, catch)

\* close() without the two try/except blocks.
close_propagating(reg, router, ff, cf, leak) == CloseAll(reg, router, ff, cf, leak, FALSE)

\* Logger.close: flush, close and remove every handler of the three loggers, going
\* on past a flush or a close that raises.
close(reg, router, ff, cf, leak) == CloseAll(reg, router, ff, cf, leak, TRUE)

\* Logger.__enter__: return self (r is the router's place in `routers`).
__enter__(r) == r

\* __exit__ that closes only when the block ended normally.
__exit__normal_only(reg, router, ff, cf, leak, exc_type) ==
    [done |-> IF exc_type = "None" THEN CloseAll(reg, router, ff, cf, leak, TRUE)
              ELSE [reg |-> reg, orphaned |-> {}, raised |-> FALSE, flushed |-> 0,
                    closed |-> 0, caught |-> 0, before |-> Len(Snapshot(reg, router, 1))],
     ret |-> "None"]

\* Logger.__exit__: self.close(), and no return statement, so it returns None.
__exit__(reg, router, ff, cf, leak, exc_type) ==
    [done |-> close(reg, router, ff, cf, leak), ret |-> "None"]

\* bool(value) of what __exit__ returned: whether the with statement swallows the
\* exception in flight.
Truthy(value) == value \notin {"None", "False"}

Init ==
    /\ routers = <<>>
    /\ loggers = [n \in LoggerNames |-> [level |-> 0, handlers |-> <<>>, propagate |-> TRUE]]
    /\ fs = [p \in Paths |-> [exists |-> FALSE, lines |-> <<>>]]
    /\ dirs = {}
    /\ console = [s \in {SysStdout, SysStderr} |-> <<>>]
    /\ orphans = {}
    /\ last = [op |-> "start"]
    /\ nCalls = 0

\* router = Logger(log_dir, log_name, level, enable_console=...)
Construct(names, levels) ==
    /\ Len(routers) < MaxConstructions
    /\ \E log_dir \in Dirs, log_name \in names, level \in levels, enable_console \in BOOLEAN :
         LET r == Len(routers) + 1
             reg == __init__(loggers, r, log_dir, log_name, level, enable_console)
         IN  /\ routers' = Append(routers, Router(log_dir, log_name, level, enable_console))
             /\ loggers' = reg
             /\ dirs' = dirs \cup {log_dir}
             /\ orphans' = orphans \cup Dropped(loggers, reg)
             /\ fs' = Touch(fs, reg)
             /\ last' = [op |-> "construct", r |-> r]
    /\ UNCHANGED <<console, nCalls>>

\* router.debug/info/warning/error/critical/exception/stdin(msg), exc_info left at
\* its default; exception() is called with or without an exception being handled.
Call(methods) ==
    /\ nCalls < MaxCalls
    /\ \E r \in 1..Len(routers), method \in methods, msg \in Msgs :
       \E ctx \in IF method.force_exc THEN {NoCtx, Ctx([cls |-> "KeyError", arg |-> "boom"], 1)}
                  ELSE {NoCtx} :
         LET st == Leveled(loggers, fs, console, routers[r], method, nCalls + 1,
                           method.via, <<msg>>, FALSE, ctx)
         IN  /\ loggers' = st.loggers
             /\ fs' = st.fs
             /\ console' = st.console
             /\ last' = [op |-> "call", r |-> r, serial |-> nCalls + 1, via |-> method.via,
                         sink |-> method.sink, levelno |-> method.levelno, msg |-> <<msg>>]
    /\ nCalls' = nCalls + 1
    /\ UNCHANGED <<routers, dirs, orphans>>

\* data = router.log_error(err), inside or outside an except block.
LogError(errs, ctxs) ==
    /\ nCalls < MaxCalls
    /\ \E r \in 1..Len(routers), err \in errs, ctx \in ctxs, ts \in Timestamps :
         LET res == log_error(loggers, fs, console, routers[r], nCalls + 1, err, ctx, ts)
         IN  /\ loggers' = res.st.loggers
             /\ fs' = res.st.fs
             /\ console' = res.st.console
             /\ last' = [op |-> "log_error", r |-> r, serial |-> nCalls + 1, err |-> err,
                         ctx |-> ctx, ret |-> res.ret]
    /\ nCalls' = nCalls + 1
    /\ UNCHANGED <<routers, dirs, orphans>>

\* What goes wrong inside close(): ff, cf are the handlers whose flush(), close()
\* raise, leak whether a close() that raises leaves the file open.
NoFailure == { [ff |-> {}, cf |-> {}, leak |-> FALSE] }
Failures ==
    { f \in [ff : FailSets, cf : FailSets, leak : BOOLEAN] :
        /\ f.ff = {} \/ f.cf = {} \/ f.ff = f.cf
        /\ f.leak => f.cf # {} }

\* router.close()
Close(failures) ==
    /\ \E r \in 1..Len(routers), f \in failures :
         LET done == close(loggers, routers[r], f.ff, f.cf, f.leak)
         IN  /\ loggers' = done.reg
             /\ orphans' = orphans \cup done.orphaned
             /\ routers' = [routers EXCEPT ![r].closed = TRUE]
             /\ last' = [op |-> "close", r |-> r, raised |-> done.raised,
                         before |-> done.before, flushed |-> done.flushed,
                         closed |-> done.closed, caught |-> done.caught]
    /\ UNCHANGED <<fs, dirs, console, nCalls>>

\* with router as entered: ...   (the entry)
Enter ==
    /\ \E r \in 1..Len(routers) :
         /\ ~routers[r].scope
         /\ routers' = [routers EXCEPT ![r].scope = TRUE]
         /\ last' = [op |-> "enter", r |-> r, ret |-> __enter__(r)]
    /\ UNCHANGED <<loggers, fs, dirs, console, orphans, nCalls>>

\* The end of the with block, reached normally (exc_type "None") or by an exception
\* raised in the block.  The exception goes on to the caller unless __exit__
\* returned a true value; an exception raised by __exit__ itself replaces it.
Exit(failures) ==
    /\ \E r \in 1..Len(routers), exc_type \in {"None"} \cup ExcClasses, f \in failures :
         LET res == __exit__(loggers, routers[r], f.ff, f.cf, f.leak, exc_type)
         IN  /\ routers[r].scope
             /\ loggers' = res.done.reg
             /\ orphans' = orphans \cup res.done.orphaned
             /\ routers' = [routers EXCEPT ![r].scope = FALSE, ![r].closed = TRUE]
             /\ last' = [op |-> "exit", r |-> r, exc_type |-> exc_type,
                         raised |-> res.done.raised, before |-> res.done.before,
                         flushed |-> res.done.flushed, closed |-> res.done.closed,
                         caught |-> res.done.caught,
                         propagated |-> IF res.done.raised THEN "CloseFailure"
                                        ELSE IF Truthy(res.ret) THEN "None"
                                        ELSE exc_type]
    /\ UNCHANGED <<fs, dirs, console, nCalls>>

\* The runtime finalizes a file object nothing refers to, which closes it.
Finalize ==
    /\ \E o \in orphans : orphans' = orphans \ {o}
    /\ last' = [op |-> "finalize"]
    /\ UNCHANGED <<routers, loggers, fs, dirs, console, nCalls>>

\* A program that constructs routers, possibly with the same name, writes to them
\* and closes them, in any order.
SharedLevels == { <<"d","e","b","u","g">> }
SharedMethods == {info, error, stdin}
Next ==
    \/ Construct(LogNames, SharedLevels)
    \/ Call(SharedMethods)
    \/ Close(NoFailure)
    \/ Finalize

Spec == Init /\ [][Next]_vars

\* The state after router = Logger(log_dir, "app", level, enable_console=...) on a
\* fresh registry.
InitOne(levels) ==
    /\ \E log_dir \in Dirs, level \in levels, enable_console \in BOOLEAN :
         /\ routers = <<Router(log_dir, "app", level, enable_console)>>
         /\ loggers = __init__([n \in LoggerNames |->
                                   [level |-> 0, handlers |-> <<>>, propagate |-> TRUE]],
                               1, log_dir, "app", level, enable_console)
         /\ dirs = {log_dir}
    /\ fs = Touch([p \in Paths |-> [exists |-> FALSE, lines |-> <<>>]], loggers)
    /\ console = [s \in {SysStdout, SysStderr} |-> <<>>]
    /\ orphans = {}
    /\ last = [op |-> "construct", r |-> 1]
    /\ nCalls = 0

\* One router, constructed at any level, and its leveled methods.
InitLevels == InitOne(LevelArgs)
NextLevels ==
    \/ Call(Methods)
    \/ LogError({[cls |-> "KeyError", arg |-> "boom"]}, {NoCtx})
    \/ Close(NoFailure)

SpecLevels == InitLevels /\ [][NextLevels]_vars

\* One router, constructed at any level, and log_error in every exception context.
NextErrors ==
    \/ LogError(Exceptions, Contexts)
    \/ Close(NoFailure)

SpecErrors == InitLevels /\ [][NextErrors]_vars

\* One router, its with block and close(), with handlers whose flush or close fail.
InitScope == InitOne(SharedLevels)
NextScope ==
    \/ Call(SharedMethods)
    \/ Close(Failures)
    \/ Enter
    \/ Exit(Failures)
    \/ Finalize

SpecScope == InitScope /\ [][NextScope]_vars

\* ================================================================ claims
\* What the specification of the router says, written out independently of the
\* methods above.

\* The sink each call is said to write to, and the severity it is said to carry.
SaidSink(via) ==
    CASE via \in {"debug", "info", "warning"} -> "stdout"
      [] via \in {"error", "critical", "exception", "log_error"} -> "error"
      [] via = "stdin" -> "stdin"
SaidSeverity(via) ==
    CASE via = "debug" -> 10
      [] via \in {"info", "stdin"} -> 20
      [] via = "warning" -> 30
      [] via \in {"error", "exception", "log_error"} -> 40
      [] via = "critical" -> 50

\* The file each sink is said to have: <base>_stdin.log, <base>_stdout.log, <base>_error.log.
SaidPath(router, sink) ==
    << router.log_dir, router.log_name,
       IF sink = "stdin" THEN "_stdin.log"
       ELSE IF sink = "stdout" THEN "_stdout.log" ELSE "_error.log" >>

\* The minimum severity each level argument is said to mean: the five names in any
\* case, and DEBUG for any other name.
SaidMinimum(level) ==
    CASE level \in { <<"d","e","b","u","g">> } -> 10
      [] level \in { <<"I","N","F","O">> } -> 20
      [] level \in { <<"W","a","r","n","i","n","g">> } -> 30
      [] level \in { <<"E","R","R","O","R">> } -> 40
      [] level \in { <<"c","r","i","t","i","c","a","l">> } -> 50
      [] OTHER -> 10

LinesIn(path) == { fs[path].lines[i] : i \in 1..Len(fs[path].lines) }
HandlersOf(router, sink) == loggers[LoggerName(router.log_name, sink)].handlers
Count(handlers, kind) == Cardinality({ i \in 1..Len(handlers) : handlers[i].kind = kind })
Contains(hay, needle) ==
    \E i \in 0..(Len(hay) - Len(needle)) : SubSeq(hay, i + 1, i + Len(needle)) = needle

\* C1: every line in a file came from a call said to write to that file's sink: a
\* debug/info/warning line is in the output file only, an error/critical line in the
\* fault file only, an ingress line in the ingress file only and tagged INFO; the
\* line carries the message as given, and no call's line is in two places.
C1_Routing ==
    /\ \A sink \in Sinks : \A ln \in LinesIn(SaidPath(routers[1], sink)) :
         /\ ln.via \in {"debug", "info", "warning", "error", "critical", "stdin"}
              => SaidSink(ln.via) = sink
         /\ ln.via = "stdin" => ln.levelname = "INFO"
         /\ (last.op = "call" /\ ln.serial = last.serial)
              => ln.msg = last.msg /\ ln.via = last.via
    /\ \A s1 \in Sinks, s2 \in Sinks :
         \A i \in 1..Len(fs[SaidPath(routers[1], s1)].lines),
            j \in 1..Len(fs[SaidPath(routers[1], s2)].lines) :
              fs[SaidPath(routers[1], s1)].lines[i].serial
                  = fs[SaidPath(routers[1], s2)].lines[j].serial
              => s1 = s2 /\ i = j

C1_Witness ==
    /\ \E ln \in LinesIn(SaidPath(routers[1], "stdin")) : ln.via = "stdin"
    /\ \E ln \in LinesIn(SaidPath(routers[1], "stdout")) : ln.via = "warning"

\* C2: after close() returns, the three sinks have no handlers, close() raised
\* nothing, and every handler that was attached got its flush attempt and its close
\* attempt, whichever flush or close raised.
C2_CloseBestEffort ==
    last.op = "close" =>
        /\ ~last.raised
        /\ \A sink \in Sinks : HandlersOf(routers[last.r], sink) = <<>>
        /\ last.flushed = last.before
        /\ last.closed = last.before

C2_Witness ==
    /\ last.op = "close"
    /\ last.before = 5
    /\ last.caught = 10
    /\ \A sink \in Sinks : HandlersOf(routers[last.r], sink) = <<>>

\* C3: entering the with block yields the router itself; when the block is left, by
\* its end or by an exception, close() has run (every handler that was attached got
\* its flush attempt and the sinks have no handlers) and the exception that was in
\* flight still reaches the caller.
C3_Scope ==
    /\ last.op = "enter" => last.ret = last.r
    /\ last.op = "exit" =>
         /\ \A sink \in Sinks : HandlersOf(routers[last.r], sink) = <<>>
         /\ last.flushed = last.before
         /\ last.propagated = last.exc_type
         /\ ~routers[last.r].scope

C3_Witness ==
    /\ last.op = "exit"
    /\ last.exc_type = "KeyError"
    /\ last.propagated = "KeyError"
    /\ last.before = 5
    /\ \A sink \in Sinks : HandlersOf(routers[last.r], sink) = <<>>

\* C4: right after a construction, whatever was constructed or closed before under
\* the same name and directory, each sink of the new router has exactly one file
\* handler and exactly one console handler if mirroring is on for it (none for the
\* ingress sink); at all times a sink has at most one of each, no file holds two
\* lines of one call, and a call to a sink that has its handler adds exactly one line.
C4_NoDuplicateHandlers ==
    /\ last.op = "construct" =>
         \A sink \in Sinks :
            /\ Count(HandlersOf(routers[last.r], sink), "file") = 1
            /\ Count(HandlersOf(routers[last.r], sink), "stream")
                 = IF routers[last.r].enable_console /\ sink # "stdin" THEN 1 ELSE 0
            /\ \A i \in 1..Len(HandlersOf(routers[last.r], sink)) :
                 HandlersOf(routers[last.r], sink)[i].owner = last.r
    /\ \A r \in 1..Len(routers), sink \in Sinks :
         /\ Count(HandlersOf(routers[r], sink), "file") <= 1
         /\ Count(HandlersOf(routers[r], sink), "stream") <= 1
    /\ \A p \in Paths : \A i, j \in 1..Len(fs[p].lines) :
         fs[p].lines[i].serial = fs[p].lines[j].serial => i = j
    /\ (last.op = "call" /\ HandlersOf(routers[last.r], last.sink) # <<>>) =>
         Cardinality({ i \in 1..Len(fs[SaidPath(routers[last.r], last.sink)].lines) :
                         fs[SaidPath(routers[last.r], last.sink)].lines[i].serial = last.serial })
           = 1

C4_Witness ==
    /\ Len(routers) = 2
    /\ routers[1].log_name = routers[2].log_name /\ routers[1].log_dir = routers[2].log_dir
    /\ ~routers[1].closed /\ routers[2].enable_console
    /\ last.op = "call" /\ last.r = 2 /\ last.sink = "stdout"
    /\ \E ln \in LinesIn(SaidPath(routers[2], "stdout")) : ln.serial = last.serial
    /\ \E ln \in LinesIn(SaidPath(routers[2], "stdout")) : ln.serial # last.serial

\* C5: right after a construction with mirroring on, the output sink has a file
\* handler and one console handler on sys.stdout, the fault sink a file handler and
\* one console handler on sys.stderr, the ingress sink a file handler only; with
\* mirroring off every sink has one handler, a file handler.
C5_ConsoleHandlers ==
    last.op = "construct" =>
        LET router == routers[last.r]
            kinds(sink) == [i \in 1..Len(HandlersOf(router, sink)) |->
                               <<HandlersOf(router, sink)[i].kind,
                                 HandlersOf(router, sink)[i].target>>]
            file(sink) == <<"file", SaidPath(router, sink)>>
        IN  /\ kinds("stdin") = << file("stdin") >>
            /\ kinds("stdout") = IF router.enable_console
                                 THEN << file("stdout"), <<"stream", <<"sys.stdout">> >> >>
                                 ELSE << file("stdout") >>
            /\ kinds("error") = IF router.enable_console
                                THEN << file("error"), <<"stream", <<"sys.stderr">> >> >>
                                ELSE << file("error") >>

C5_Witness ==
    /\ last.op = "construct"
    /\ routers[last.r].enable_console
    /\ Len(HandlersOf(routers[last.r], "stdout")) = 2
    /\ Len(HandlersOf(routers[last.r], "error")) = 2
    /\ Len(HandlersOf(routers[last.r], "stdin")) = 1

\* What log_error is said to do for the router that has not been closed: the mapping
\* it returns, the entry in the fault file, nothing in the other two files.
SaidTypeItem(cls) == <<"'", "exception_type", "'", ":", "'", cls, "'">>
LogErrorReturns ==
    /\ last.ret.exception_type = last.err.cls
    /\ Contains(last.ret.exception_message, StrExc(last.err))
LogErrorRecorded ==
    /\ \E ln \in LinesIn(SaidPath(routers[last.r], "error")) :
         /\ ln.serial = last.serial
         /\ Contains(ln.msg, SaidTypeItem(last.ret.exception_type))
    /\ \A sink \in {"stdin", "stdout"} : \A ln \in LinesIn(SaidPath(routers[last.r], sink)) :
         ln.serial # last.serial

\* C6 as stated: every log_error(e) on an open router returns the mapping with e's
\* class name and str(e), adds an entry with the stringified report to the fault
\* file, and writes nothing to the output or ingress file.
C6_AsStated ==
    (last.op = "log_error" /\ ~routers[last.r].closed) =>
        LogErrorReturns /\ LogErrorRecorded

\* C6 as amended: the mapping is returned at every level; the fault file gains the
\* entry when the router's minimum severity is ERROR or lower; at CRITICAL no file
\* gains anything.
C6_LogError ==
    (last.op = "log_error" /\ ~routers[last.r].closed) =>
        /\ LogErrorReturns
        /\ SaidMinimum(routers[last.r].level) <= 40 => LogErrorRecorded
        /\ SaidMinimum(routers[last.r].level) > 40 =>
             \A p \in Paths : \A ln \in LinesIn(p) : ln.serial # last.serial

C6_Witness ==
    /\ last.op = "log_error" /\ ~routers[last.r].closed
    /\ last.err.cls = "KeyError" /\ last.ctx.active /\ last.ctx.exc.cls = "ValueError"
    /\ SaidMinimum(routers[last.r].level) = 40
    /\ \E ln \in LinesIn(SaidPath(routers[last.r], "error")) :
         ln.serial = last.serial /\ Contains(ln.msg, SaidTypeItem("KeyError"))

\* C7: the level argument, matched in any case, is the minimum severity recorded
\* (DEBUG for a name that is none of the five): a leveled call on the router that
\* has not been closed adds one line to its sink's file, and changes no other file,
\* if its severity is at or above the minimum; otherwise it changes no file and
\* writes nothing to the console.
C7_MinimumLevel ==
    [][ (last'.op = "call" /\ nCalls' = nCalls + 1 /\ ~routers[last'.r].closed) =>
          LET own == SaidPath(routers[last'.r], SaidSink(last'.via))
          IN  IF SaidSeverity(last'.via) >= SaidMinimum(routers[last'.r].level)
              THEN /\ Len(fs'[own].lines) = Len(fs[own].lines) + 1
                   /\ fs'[own].lines[Len(fs'[own].lines)].serial = last'.serial
                   /\ \A p \in Paths \ {own} : fs'[p] = fs[p]
              ELSE fs' = fs /\ console' = console ]_vars

C7_Witness ==
    /\ last.op = "call" /\ last.via = "info" /\ ~routers[last.r].closed
    /\ routers[last.r].level = <<"W","a","r","n","i","n","g">>
    /\ routers[last.r].enable_console
    /\ last.serial = 2
    /\ Len(fs[SaidPath(routers[last.r], "stdout")].lines) = 1
    /\ fs[SaidPath(routers[last.r], "stdout")].lines[1].via = "warning"

\* C8 as stated: the file, line and function of the report are those of the frame
\* that raised, the last entry of the traceback, however many frames lie between it
\* and the handling code.
C8_AsStated ==
    (last.op = "log_error" /\ last.ctx.active) =>
        LET raised == last.ctx.tb[Len(last.ctx.tb)]
        IN  /\ last.ret.filename = raised.file[Len(raised.file)]
            /\ last.ret.lineno = raised.line
            /\ last.ret.function = raised.func

\* C9: a sink's file exists only if a line has been written to it, and every line
\* in it came from a call routed to that sink; right after construction no file
\* exists; a call that was recorded leaves its sink's file at <base>_<sink>.log.
C9_LazyFiles ==
    /\ \A sink \in Sinks :
         LET p == SaidPath(routers[1], sink)
         IN  /\ fs[p].exists => fs[p].lines # <<>>
             /\ \A ln \in LinesIn(p) : SaidSink(ln.via) = sink
             /\ fs[p].lines # <<>> => fs[p].exists
    /\ last.op = "construct" => \A p \in Paths : ~fs[p].exists
    /\ (last.op \in {"call", "log_error"} /\ ~routers[1].closed
          /\ SaidSeverity(IF last.op = "call" THEN last.via ELSE "log_error")
               >= SaidMinimum(routers[1].level))
         => fs[SaidPath(routers[1],
                        SaidSink(IF last.op = "call" THEN last.via ELSE "log_error"))].exists

C9_Witness ==
    /\ routers[1].closed
    /\ fs[SaidPath(routers[1], "stdin")].exists
    /\ ~fs[SaidPath(routers[1], "stdout")].exists
    /\ ~fs[SaidPath(routers[1], "error")].exists
    /\ nCalls = 2

\* Once every router constructed so far has been closed, no file object opened
\* through any of them is still open.
AllReleased ==
    (Len(routers) > 0 /\ \A r \in 1..Len(routers) : routers[r].closed) =>
        /\ orphans = {}
        /\ \A h \in AllHandlers(loggers) : ~h.fd
\* A close() leaves attached every handler that another router, not closed, attached.
NoForeignDetach ==
    last'.op = "close" =>
        \A h \in AllHandlers(loggers) :
            (h.owner # last'.r /\ ~routers'[h.owner].closed) => h \in AllHandlers(loggers')
\* C10 as stated: closing releases every file handle the routers opened, so that
\* nothing is open once all of them are closed, and a close() on one router never
\* closes or detaches a handler that another, still open, router attached.
C10_AsStated == []AllReleased /\ [][NoForeignDetach]_vars

====
